---- MODULE Spec2Model ----
(***************************************************************************)
(* A state-machine model of the browser client of video_analysis:          *)
(*   - the capture view RecordVideo (frontend/src/components/RecordVideo.js)*)
(*     with its trial gate, device refresh, camera initialisation, audio   *)
(*     metering, recording and release of resources;                       *)
(*   - the job tracking view ChatPage (unnamed/part_001, lines 430-677)    *)
(*     with its status poll chain.                                         *)
(* Each handler, effect and promise continuation of the source is one      *)
(* action. React state updates made by a handler are committed together    *)
(* with the effects they trigger (Commit), as React does before the next   *)
(* task runs. Suspension points (await, setTimeout, requestAnimationFrame, *)
(* recorder events) separate actions.                                      *)
(***************************************************************************)
EXTENDS Integers, Sequences, FiniteSets, TLC

(***************************************************************************)
(* Bounds of the model.                                                    *)
(***************************************************************************)
\* getDevices calls that may be in flight at once
MaxDevCalls == 1
\* initializeCamera calls that may be in flight at once (the source's guard
\* keeps it at one; the bound matters only when that guard is removed)
MaxInitCalls == 2
\* stop events of superseded recorders that may be queued at once
MaxOldStops == 1

\* analyser.frequencyBinCount (fftSize / 2 = 128 in the source)
BinCount == 2

\* preview object URLs the blob URL store is followed to (SpecPreview)
MaxUrls == 2

\* documents POST /documents/ creates (SpecUpload)
MaxDocs == 2
\* POST /extract-images/ requests in flight at once (SpecUpload)
MaxExtracts == 1

\* stream handles the browser hands out: enough for every call in flight,
\* the session stream and the stream a recorder still names
StreamIds == 1..(MaxDevCalls + MaxInitCalls + 2)
\* requestAnimationFrame handles
FrameIds == 1..(MaxInitCalls + 1)

NULL == "null"

(***************************************************************************)
(* The environment: hardware the browser may enumerate, the entry routes   *)
(* of the view, the answers of GET /trial/check/{code}.                    *)
(***************************************************************************)
VideoLists == {<<"c1", "c2">>}
AudioLists == {<< >>, <<"m1", "m2">>}

\* The entry of the capture view: the route, its :code parameter ("" when the
\* route has none), NODE_ENV, whether the visitor is an authenticated admin,
\* and the router: "App" is frontend/src/App.js, "AppProtected" the router of
\* unnamed/part_008, which wraps "/" and "/upload" in ProtectedRoute.
Paths == {"/", "/upload", "/trial/:code/record"}
Codes == {"", "ABC-123", "dev-test-code"}

AllContexts ==
    [path : Paths, code : Codes, env : {"development", "production"},
     admin : BOOLEAN, app : {"App", "AppProtected"}]

\* The router renders RecordVideo for entry c.
Renders(c) ==
    IF c.app = "App"
    THEN c.path = "/upload" /\ c.code = ""
    ELSE \/ c.path \in {"/", "/upload"} /\ c.code = "" /\ c.admin
         \/ c.path = "/trial/:code/record" /\ c.code # ""

EntryContexts == { c \in AllContexts : Renders(c) }

\* The entries the capture view is explored from: a production build, with
\* getEffectiveTrialCode and TrialEffect keeping the branches of a
\* development build.
Contexts ==
    { [path |-> "/", code |-> "", env |-> "production",
       admin |-> TRUE, app |-> "AppProtected"],
      [path |-> "/upload", code |-> "", env |-> "production",
       admin |-> FALSE, app |-> "App"],
      [path |-> "/trial/:code/record", code |-> "ABC-123", env |-> "production",
       admin |-> FALSE, app |-> "AppProtected"] }

TrialResponses ==
    { [valid |-> TRUE,  videos_remaining |-> 3, max_videos |-> 10,
       expires_at |-> "2025-11-08T20:14:41Z"],
      [valid |-> FALSE, videos_remaining |-> 0, max_videos |-> 10,
       expires_at |-> "2025-11-08T20:14:41Z"] }

\* err.response?.data?.error of a failed trial check: a server message or none
TrialFailures == {"Trial link has expired", NULL}

VARIABLES
    ctx,        \* route and environment the capture view was entered with
    mounted,    \* the capture view is mounted
    state,      \* RecordVideo's useState cells
    rt,         \* RecordVideo's useRef cells and the browser resources behind them
    initCalls,  \* initializeCamera calls suspended at an await
    devCalls,   \* getDevices calls suspended at an await
    timer,      \* the debounce timer of the camera init effect (<< >> = none)
    trialReq,   \* the trial check request: "none" | "pending"
    uploads,    \* POST /process-video/ requests in flight
    previewUrls \* <<n>>: n object URLs made by onstop are unrevoked in the
                \* document's blob URL store; << >>: the store is not observed

VARIABLES
    videoId,      \* the :videoId route parameter of the tracking view
    chatMounted,  \* the tracking view ChatPage is mounted
    chat,         \* ChatPage's useState cells
    polls,        \* poll chains: per job id, the status requests in flight, the
                  \* chat-start requests in flight and the 2 s timers pending
    job,          \* the server's record of each job
    notified      \* per job id, how often a chat start was surfaced

VARIABLES
    fileUpload, \* the document view FileUpload: its useState cells, its poll
                \* chains and requests in flight, the feedback_pending_* keys of
                \* localStorage, the ids the server has issued
    auth        \* AuthProvider's useState cells, its admin check request and
                \* location.pathname

rvVars == <<ctx, mounted, state, rt, initCalls, devCalls, timer, trialReq, uploads, previewUrls>>
chatVars == <<videoId, chatMounted, chat, polls, job, notified>>
pageVars == <<fileUpload, auth>>

vars == <<rvVars, chatVars, pageVars>>

Min(a, b) == IF a < b THEN a ELSE b

RemoveAt(s, i) == SubSeq(s, 1, i - 1) \o SubSeq(s, i + 1, Len(s))

(***************************************************************************)
(* Trial gate                                                              *)
(***************************************************************************)
Bypass == [valid |-> TRUE, videos_remaining |-> 999, max_videos |-> 999]

getEffectiveTrialCode(c) ==
    IF c.code # "" THEN c.code
    ELSE IF c.path = "/upload" THEN NULL
    ELSE IF c.env = "development" THEN "dev-test-code"
    ELSE NULL

\* The trial check effect: the trial cells and the request it leaves in flight.
TrialEffect(c) ==
    LET effectiveCode == getEffectiveTrialCode(c) IN
    IF effectiveCode = NULL THEN
        IF c.path = "/upload" \/ c.env = "development"
        THEN [trialValid |-> "true", trialInfo |-> <<Bypass>>, trialError |-> NULL, req |-> "none"]
        ELSE [trialValid |-> "false", trialInfo |-> << >>,
              trialError |-> "Invalid trial link", req |-> "none"]
    ELSE IF effectiveCode = "dev-test-code"
        THEN [trialValid |-> "true", trialInfo |-> <<Bypass>>, trialError |-> NULL, req |-> "none"]
    ELSE [trialValid |-> NULL, trialInfo |-> << >>, trialError |-> NULL, req |-> "pending"]

(***************************************************************************)
(* Resources: cleanup, startAudioAnalysis                                  *)
(***************************************************************************)
LiveIds(r) == { s.id : s \in r.streams }

\* track.stop() on every track of stream id: the stream is no longer live,
\* and a recorder recording it stops and queues its stop event.
StopTracks(r, id) ==
    [r EXCEPT !.streams = { s \in r.streams : s.id # id },
              !.mediaRecorderRef =
                  IF r.mediaRecorderRef = "recording" /\ r.recStream = id
                  THEN "stopping" ELSE @]

cleanupNoCancel(r) ==
    LET r1 == IF r.currentStreamRef # 0
              THEN [StopTracks(r, r.currentStreamRef) EXCEPT !.currentStreamRef = 0]
              ELSE r
        r3 == IF r1.audioAnalyserRef
              THEN [r1 EXCEPT !.analysers = @ - 1, !.audioAnalyserRef = FALSE]
              ELSE r1
    IN  IF r3.audioContextRef
        THEN [r3 EXCEPT !.contexts = @ - 1, !.audioContextRef = FALSE]
        ELSE r3

\* A cleanup that closes the AudioContext and keeps the reference to it.
cleanupKeepsContext(r) ==
    LET r1 == IF r.currentStreamRef # 0
              THEN [StopTracks(r, r.currentStreamRef) EXCEPT !.currentStreamRef = 0]
              ELSE r
        r2 == IF r1.animationFrameRef # 0
              THEN [r1 EXCEPT !.frames = @ \ {r1.animationFrameRef},
                              !.animationFrameRef = 0]
              ELSE r1
        r3 == IF r2.audioAnalyserRef
              THEN [r2 EXCEPT !.analysers = @ - 1, !.audioAnalyserRef = FALSE]
              ELSE r2
    IN  IF r3.audioContextRef
        THEN [r3 EXCEPT !.contexts = @ - 1]
        ELSE r3

cleanup(r) ==
    LET r1 == IF r.currentStreamRef # 0
              THEN [StopTracks(r, r.currentStreamRef) EXCEPT !.currentStreamRef = 0]
              ELSE r
        r2 == IF r1.animationFrameRef # 0
              THEN [r1 EXCEPT !.frames = @ \ {r1.animationFrameRef},
                              !.animationFrameRef = 0]
              ELSE r1
        r3 == IF r2.audioAnalyserRef
              THEN [r2 EXCEPT !.analysers = @ - 1, !.audioAnalyserRef = FALSE]
              ELSE r2
    IN  IF r3.audioContextRef
        THEN [r3 EXCEPT !.contexts = @ - 1, !.audioContextRef = FALSE]
        ELSE r3

FreeFrame(r) == CHOOSE f \in FrameIds : f \notin r.frames /\ \A g \in FrameIds : g < f => g \in r.frames

\* The bytes getByteFrequencyData may write into dataArray (Uint8Array of
\* bufferLength = BinCount elements).
BinValues == {0, 128, 255}
Samples == [1..BinCount -> BinValues]
Silence == [k \in 1..BinCount |-> 0]

RECURSIVE SumTo(_, _)
SumTo(dataArray, n) == IF n = 0 THEN 0 ELSE SumTo(dataArray, n - 1) + dataArray[n]

\* audioLevel is kept in units of 1/LevelUnit percent, so that the two
\* divisions of lines 180-181 are exact.
LevelUnit == BinCount * 256

\* Lines 180-181 with the normalisation of line 181 dividing by 128.
normalizedLevelBy128(dataArray) ==
    (SumTo(dataArray, BinCount) * 100 * LevelUnit) \div (BinCount * 128)

\* Lines 180-181: average = sum / bufferLength; (average / 256) * 100.
normalizedLevel(dataArray) ==
    (SumTo(dataArray, BinCount) * 100 * LevelUnit) \div (BinCount * 256)

\* startAudioAnalysis(stream), its first updateAudioLevel() included.
\* ok = FALSE: the audio graph cannot be built and the catch swallows it.
startAudioAnalysis(r, ok) ==
    IF ~ok THEN r
    ELSE LET r1 == IF r.audioContextRef THEN r
                   ELSE [r EXCEPT !.audioContextRef = TRUE, !.contexts = @ + 1]
             f  == FreeFrame(r1)
         IN  [r1 EXCEPT !.analysers = @ + 1,
                        !.audioAnalyserRef = TRUE,
                        !.frames = @ \cup {f},
                        !.animationFrameRef = f]

(***************************************************************************)
(* RecordVideo: construction                                               *)
(***************************************************************************)
\* A getDevices call closes over the selection of the render that made it and
\* reads only !selectedCamera and !selectedMic of it (lines 273, 276).
NewDevCall(cam, mic) ==
    [phase |-> "gum", noCamera |-> (cam = ""), noMic |-> (mic = ""), stream |-> 0]

InitState(c) ==
    LET t == TrialEffect(c) IN
    [ isRecording       |-> FALSE,
      recordedVideo     |-> NULL,
      error             |-> NULL,
      uploading         |-> FALSE,
      processingStatus  |-> NULL,
      devices           |-> [video |-> << >>, audio |-> << >>],
      selectedCamera    |-> "",
      selectedMic       |-> "",
      cameraInitialized |-> FALSE,
      audioLevel        |-> 0,       \* in units of 1/LevelUnit percent
      trialValid        |-> t.trialValid,
      trialInfo         |-> t.trialInfo,
      trialError        |-> t.trialError ]

InitRt ==
    [ currentStreamRef  |-> 0,       \* 0 = null, else a stream handle
      animationFrameRef |-> 0,       \* 0 = null, else a frame handle
      audioAnalyserRef  |-> FALSE,   \* TRUE = holds an analyser
      audioContextRef   |-> FALSE,   \* TRUE = holds an open AudioContext
      initializingRef   |-> FALSE,
      mediaRecorderRef  |-> NULL,    \* state of the recorder it holds:
                                     \* "recording" | "stopping" (stop event queued) | "inactive"
      recStream         |-> 0,       \* the stream that recorder records
      oldStops          |-> 0,       \* stop events queued by recorders no longer referenced
      streams           |-> {},      \* live streams (some track not stopped)
      frames            |-> {},      \* animation frames requested and not yet run or cancelled
      analysers         |-> 0,       \* analyser nodes connected
      contexts          |-> 0 ]      \* AudioContexts open

JobIds == {"v1", "v2"}

InitChat ==
    [ loading            |-> TRUE,
      error              |-> NULL,
      conversationId     |-> NULL,
      messages           |-> << >>,
      questionsRemaining |-> 10 ]

NoPolls == [j \in JobIds |-> [status |-> 0, chat |-> 0, timer |-> 0]]

(***************************************************************************)
(* The document view FileUpload (unnamed/part_002)                         *)
(***************************************************************************)
DocIds == 1..MaxDocs

InitFileUploadState ==
    [ file              |-> FALSE,   \* a file is held
      uploading         |-> FALSE,
      error             |-> NULL,
      success           |-> FALSE,
      showFeedback      |-> FALSE,
      documentId        |-> 0,       \* 0 = null
      documentStatus    |-> NULL,
      isPolling         |-> FALSE,
      feedbackGiven     |-> {},
      extractedImages   |-> FALSE,   \* TRUE = not empty
      selectedOldLogo   |-> FALSE,   \* TRUE = not null
      showNewLogoUpload |-> FALSE,
      isProcessing      |-> FALSE ]

\* storage: the ids k with localStorage feedback_pending_k = 'true'.
\* chains: the pollDocumentStatus calls in flight; each is the closure of one
\*   render: id its documentId, given its feedbackGiven; phase is the await or
\*   timer it is suspended at: "status" | "timer" | "check" | "file".
\* batched: the build batches the state updates made after an await into one
\*   render (React 18 createRoot); otherwise each of them renders on its own.
\* triggered: per id, how often setShowFeedback(true) was called for it.
\* settled: the ids whose poll was answered 'completed' and whose
\*   handleDownload has returned.
FileUploadWith(keys, build) ==
    [ s         |-> InitFileUploadState,
      storage   |-> keys,
      chains    |-> {},
      extracts  |-> 0,               \* POST /extract-images/ in flight
      creates   |-> 0,               \* POST /documents/ in flight
      nextId    |-> 1,               \* the id the server issues next
      triggered |-> [k \in DocIds |-> 0],
      settled   |-> {},
      batched   |-> build ]

\* FileUpload is not rendered.
FileUploadIdle == FileUploadWith({}, TRUE)

\* One render with state s2 and the effects whose deps it changed:
\* the restore effect (lines 90-98, deps documentId), the isProcessing effect
\* (lines 111-115, deps documentStatus) and the polling effect (lines 212-216,
\* deps documentId, isPolling), which calls this render's pollDocumentStatus.
FileUploadEffects(u, s2) ==
    LET idChanged == s2.documentId # u.s.documentId
        restore   == idChanged /\ s2.documentId # 0 /\ s2.documentId \in u.storage
        poll      == /\ idChanged \/ s2.isPolling # u.s.isPolling
                     /\ s2.documentId # 0
                     /\ s2.isPolling
        done      == /\ s2.documentStatus # u.s.documentStatus
                     /\ s2.documentStatus \in {"completed", "failed"}
    IN  [u EXCEPT
           !.s = [s2 EXCEPT
                    !.showFeedback  = IF restore THEN TRUE ELSE @,
                    !.feedbackGiven = IF restore THEN @ \cup {s2.documentId} ELSE @,
                    !.isProcessing  = IF done THEN FALSE ELSE @],
           !.triggered = IF restore
                         THEN [@ EXCEPT ![s2.documentId] = @ + 1] ELSE @,
           !.chains = IF poll
                      THEN @ \cup {[id |-> s2.documentId, given |-> s2.feedbackGiven,
                                    phase |-> "status"]}
                      ELSE @]

PageFrame == UNCHANGED <<rvVars, chatVars>>

\* handleFileChange (lines 126-139) and handleDrop (lines 154-170): the drop
\* zone takes no input while uploading (lines 403-410). sizeOk = FALSE:
\* validateFileSize throws. Then handleUpload (lines 219-236) up to its await.
SelectFile(sizeOk) ==
    /\ ~fileUpload.s.uploading
    /\ fileUpload.extracts < MaxExtracts
    /\ fileUpload' =
         IF ~sizeOk
         THEN FileUploadEffects(fileUpload,
                  [fileUpload.s EXCEPT !.error = "File size exceeds the maximum limit"])
         ELSE [FileUploadEffects(fileUpload,
                  [fileUpload.s EXCEPT !.file = TRUE,
                                       !.uploading = TRUE,
                                       !.error = NULL,
                                       !.success = FALSE,
                                       !.documentStatus = "pending",
                                       !.feedbackGiven = {},
                                       !.extractedImages = FALSE,
                                       !.selectedOldLogo = FALSE,
                                       !.showNewLogoUpload = FALSE])
               EXCEPT !.extracts = @ + 1]
    /\ UNCHANGED auth
    /\ PageFrame

\* POST /extract-images/ settles (lines 238-249).
ExtractAnswers == {"images", "none", "error"}

ExtractAnswered(answer) ==
    /\ fileUpload.extracts > 0
    /\ fileUpload' =
         [FileUploadEffects(fileUpload,
              [fileUpload.s EXCEPT
                 !.extractedImages = IF answer = "images" THEN TRUE ELSE @,
                 !.success = IF answer = "images" THEN TRUE ELSE @,
                 !.error = IF answer = "none" THEN "No images found in the document"
                           ELSE IF answer = "error" THEN "An error occurred during upload"
                           ELSE @,
                 !.uploading = FALSE])
          EXCEPT !.extracts = @ - 1]
    /\ UNCHANGED auth
    /\ PageFrame

\* removeFile (lines 173-179).
RemoveFile ==
    /\ fileUpload.s.file
    /\ ~fileUpload.s.uploading
    /\ fileUpload' = FileUploadEffects(fileUpload, [fileUpload.s EXCEPT !.file = FALSE])
    /\ UNCHANGED auth
    /\ PageFrame

\* handleImageSelect (lines 253-257); the image list is rendered while images
\* are held and no logo is chosen (line 499).
HandleImageSelect ==
    /\ fileUpload.s.extractedImages
    /\ ~fileUpload.s.showNewLogoUpload
    /\ fileUpload' = FileUploadEffects(fileUpload,
                        [fileUpload.s EXCEPT !.selectedOldLogo = TRUE,
                                             !.showNewLogoUpload = TRUE])
    /\ UNCHANGED auth
    /\ PageFrame

\* handleNewLogoChange (lines 260-288) up to the await of POST /documents/;
\* the input is rendered with the chosen logo (line 567) and disabled while
\* uploading or processing (line 742).
HandleNewLogoChange ==
    /\ fileUpload.s.showNewLogoUpload
    /\ fileUpload.s.selectedOldLogo
    /\ ~(fileUpload.s.uploading \/ fileUpload.s.isProcessing)
    /\ fileUpload.nextId + fileUpload.creates <= MaxDocs
    /\ fileUpload' =
         [FileUploadEffects(fileUpload,
              [fileUpload.s EXCEPT !.error = NULL,
                                   !.isProcessing = TRUE,
                                   !.uploading = TRUE])
          EXCEPT !.creates = @ + 1]
    /\ UNCHANGED auth
    /\ PageFrame

\* POST /documents/ answers with the new document (lines 290-301): the three
\* state updates and the one of finally are one render in a batching build,
\* four renders otherwise.
DocumentCreated ==
    /\ fileUpload.creates > 0
    /\ LET id == fileUpload.nextId
           u0 == [fileUpload EXCEPT !.creates = @ - 1, !.nextId = @ + 1]
           u1 == FileUploadEffects(u0, [u0.s EXCEPT !.documentId = id])
           u2 == FileUploadEffects(u1, [u1.s EXCEPT !.documentStatus = "processing"])
           u3 == FileUploadEffects(u2, [u2.s EXCEPT !.isPolling = TRUE])
       IN  fileUpload' =
             IF fileUpload.batched
             THEN FileUploadEffects(u0, [u0.s EXCEPT !.documentId = id,
                                                     !.documentStatus = "processing",
                                                     !.isPolling = TRUE,
                                                     !.uploading = FALSE])
             ELSE FileUploadEffects(u3, [u3.s EXCEPT !.uploading = FALSE])
    /\ UNCHANGED auth
    /\ PageFrame

\* POST /documents/ fails (lines 295-301).
DocumentFailed ==
    /\ fileUpload.creates > 0
    /\ fileUpload' =
         [FileUploadEffects(fileUpload,
              [fileUpload.s EXCEPT !.error = "Error processing document",
                                   !.isProcessing = FALSE,
                                   !.uploading = FALSE])
          EXCEPT !.creates = @ - 1]
    /\ UNCHANGED auth
    /\ PageFrame

\* pollDocumentStatus (lines 182-209) from the answer of GET /documents/{id}/
\* on: status "error" is the catch. On 'completed' it calls the handleDownload
\* of its render, which awaits the download check (line 310).
PollAnswers == {"pending", "processing", "completed", "failed", "error"}

StatusAnswered(c, status) ==
    /\ c \in fileUpload.chains
    /\ c.phase = "status"
    /\ LET s1 == IF status = "error"
                 THEN [fileUpload.s EXCEPT !.error = "Failed to get document status"]
                 ELSE [fileUpload.s EXCEPT !.documentStatus = status]
           s2 == IF status = "completed"
                 THEN [s1 EXCEPT !.success = TRUE, !.isPolling = FALSE, !.uploading = FALSE]
                 ELSE IF status = "failed"
                 THEN [s1 EXCEPT !.error = "Processing failed",
                                 !.isPolling = FALSE, !.uploading = FALSE]
                 ELSE IF status = "error"
                 THEN [s1 EXCEPT !.isPolling = FALSE, !.uploading = FALSE]
                 ELSE s1
           next == IF status = "completed" THEN {[c EXCEPT !.phase = "check"]}
                   ELSE IF status \in {"pending", "processing"}
                   THEN {[c EXCEPT !.phase = "timer"]}
                   ELSE {}
           u1 == [fileUpload EXCEPT !.chains = (@ \ {c}) \cup next]
       IN  fileUpload' = FileUploadEffects(u1, s2)
    /\ UNCHANGED auth
    /\ PageFrame

\* The POLL_INTERVAL timer (line 201) fires: the next status request.
DocumentPollTimerFired(c) ==
    /\ c \in fileUpload.chains
    /\ c.phase = "timer"
    /\ fileUpload' = [fileUpload EXCEPT !.chains = (@ \ {c}) \cup {[c EXCEPT !.phase = "status"]}]
    /\ UNCHANGED auth
    /\ PageFrame

\* The feedback block of handleDownload (lines 318-322 and 341-345), run in
\* the closure of chain c.
FeedbackBlock(u, c) ==
    IF c.id \in c.given
    THEN u
    ELSE [u EXCEPT !.storage = @ \cup {c.id},
                   !.s = [@ EXCEPT !.showFeedback = TRUE,
                                   !.feedbackGiven = @ \cup {c.id}],
                   !.triggered = [@ EXCEPT ![c.id] = @ + 1]]

\* handleDownload (lines 306-351) from the answer of the download check on:
\* "url" carries download_url, "nourl" does not (the file request follows),
\* "error" is the catch.
CheckAnswers == {"url", "nourl", "error"}

DownloadChecked(c, answer) ==
    /\ c \in fileUpload.chains
    /\ c.phase = "check"
    /\ LET gone == [fileUpload EXCEPT !.chains = @ \ {c}, !.settled = @ \cup {c.id}]
       IN  fileUpload' =
             IF answer = "url" THEN FeedbackBlock(gone, c)
             ELSE IF answer = "nourl"
             THEN [fileUpload EXCEPT !.chains = (@ \ {c}) \cup {[c EXCEPT !.phase = "file"]}]
             ELSE [gone EXCEPT !.s = [@ EXCEPT !.error = "An error occurred during download"]]
    /\ UNCHANGED auth
    /\ PageFrame

\* The file request of handleDownload settles (lines 328-350).
FileDownloaded(c, ok) ==
    /\ c \in fileUpload.chains
    /\ c.phase = "file"
    /\ LET gone == [fileUpload EXCEPT !.chains = @ \ {c}, !.settled = @ \cup {c.id}]
       IN  fileUpload' =
             IF ok THEN FeedbackBlock(gone, c)
             ELSE [gone EXCEPT !.s = [@ EXCEPT !.error = "An error occurred during download"]]
    /\ UNCHANGED auth
    /\ PageFrame

\* handleFeedbackClose (lines 118-123), onClose of the dialog (line 776).
HandleFeedbackClose ==
    /\ fileUpload.s.showFeedback
    /\ fileUpload' =
         [FileUploadEffects(fileUpload, [fileUpload.s EXCEPT !.showFeedback = FALSE])
          EXCEPT !.storage = IF fileUpload.s.documentId # 0
                             THEN @ \ {fileUpload.s.documentId} ELSE @]
    /\ UNCHANGED auth
    /\ PageFrame

(***************************************************************************)
(* AuthProvider (unnamed/part_000), ProtectedRoute (unnamed/part_005) and  *)
(* the routes of unnamed/part_008                                          *)
(***************************************************************************)
Pathnames == {"/", "/upload", "/record", "/admin/login", "/trial/ABC-123/record"}

\* req: the GET /admin/check/ of checkAdminStatus is in flight.
\* lastCheck: how that request settled: "none" | "admin" | "notadmin" | "failed".
\* loggedIn: login(true, ...) was called since the page was loaded.
\* logouts: logout calls suspended at their await.
AuthWith(pathname) ==
    [ isAdmin   |-> FALSE,
      user      |-> NULL,
      loading   |-> TRUE,
      checked   |-> FALSE,
      req       |-> TRUE,
      lastCheck |-> "none",
      loggedIn  |-> FALSE,
      logouts   |-> 0,
      pathname  |-> pathname ]

\* The provider of a visitor whose admin check has settled.
AuthSettled(admin) ==
    [AuthWith("/") EXCEPT !.isAdmin = admin,
                          !.user = IF admin THEN "admin" ELSE NULL,
                          !.loading = FALSE,
                          !.checked = TRUE,
                          !.req = FALSE,
                          !.lastCheck = IF admin THEN "admin" ELSE "notadmin"]

\* The members of Pathnames that start with '/trial/', with '/admin'.
TrialPathnames == {"/trial/ABC-123/record"}
AdminPathnames == {"/admin/login"}

\* A ProtectedRoute that lets every path through to its default case.
ProtectedRouteDefaultCase(a, pathname) ==
    IF a.loading \/ ~a.checked THEN "Loading"
    ELSE "children"

\* What ProtectedRoute renders (part_005 lines 7-142).
ProtectedRoute(a, pathname) ==
    IF a.loading \/ ~a.checked THEN "Loading"
    ELSE IF a.isAdmin THEN "children"
    ELSE IF pathname \in TrialPathnames THEN "children"
    ELSE IF pathname \in AdminPathnames THEN "children"
    ELSE IF pathname = "/record" THEN "Admin Access Required"
    ELSE IF pathname = "/" \/ pathname = "/upload" THEN "Access Restricted"
    ELSE "children"

\* The page the routes of part_008 (lines 36-52) show at pathname.
PageAt(a, pathname) ==
    IF pathname \in {"/", "/upload"}
    THEN IF ProtectedRoute(a, pathname) = "children"
         THEN "RecordVideo" ELSE ProtectedRoute(a, pathname)
    ELSE IF pathname \in TrialPathnames THEN "RecordVideo"
    ELSE IF pathname \in AdminPathnames THEN "AdminLogin"
    ELSE "GenericLandingPage"

AuthFrame == UNCHANGED <<rvVars, chatVars, fileUpload>>

\* checkAdminStatus (part_000 lines 72-85): the request answers.
CheckAdminOk(is_admin, usr) ==
    /\ auth.req
    /\ auth' = [auth EXCEPT !.isAdmin = is_admin,
                            !.user = usr,
                            !.loading = FALSE,
                            !.checked = TRUE,
                            !.req = FALSE,
                            !.lastCheck = IF is_admin THEN "admin" ELSE "notadmin"]
    /\ AuthFrame

\* checkAdminStatus: the request fails (catch and finally, lines 77-84).
CheckAdminFail ==
    /\ auth.req
    /\ auth' = [auth EXCEPT !.isAdmin = FALSE,
                            !.user = NULL,
                            !.loading = FALSE,
                            !.checked = TRUE,
                            !.req = FALSE,
                            !.lastCheck = "failed"]
    /\ AuthFrame

\* login (part_000 lines 88-91), called by the admin login page after the
\* server accepted the password: login(true, response.data.user), then
\* navigate('/') (part_001 lines 193-197).
Login(usr) ==
    /\ auth.pathname = "/admin/login"
    /\ auth' = [auth EXCEPT !.isAdmin = TRUE, !.user = usr, !.loggedIn = TRUE,
                            !.pathname = "/"]
    /\ AuthFrame

\* logout (part_000 lines 94-106) up to its await.
Logout ==
    /\ auth.logouts = 0
    /\ auth' = [auth EXCEPT !.logouts = @ + 1]
    /\ AuthFrame

\* logout after the await: its finally.
LogoutSettled ==
    /\ auth.logouts > 0
    /\ auth' = [auth EXCEPT !.isAdmin = FALSE, !.user = NULL,
                            !.loggedIn = FALSE, !.logouts = @ - 1]
    /\ AuthFrame

\* navigate(...) of the router: the provider stays mounted.
Navigate(pathname) ==
    /\ pathname # auth.pathname
    /\ auth' = [auth EXCEPT !.pathname = pathname]
    /\ AuthFrame

\* The document is loaded at pathname (a typed address, or
\* window.location.href = '/admin/login', part_005 line 77): the provider
\* mounts anew and its effect calls checkAdminStatus (part_000 lines 108-110).
LoadPage(pathname) ==
    /\ auth # AuthWith(pathname)
    /\ auth' = AuthWith(pathname)
    /\ AuthFrame

\* FileUpload is not rendered and the admin check of the visitor has settled.
PagesIdle ==
    /\ fileUpload = FileUploadIdle
    /\ auth = AuthSettled(ctx.admin)

\* The tracking view is not rendered.
ChatIdle ==
    /\ videoId = "v1"
    /\ chatMounted = FALSE
    /\ chat = InitChat
    /\ polls = NoPolls
    /\ job = [j \in JobIds |-> "absent"]
    /\ notified = [j \in JobIds |-> 0]

\* The state after the first render and its effects: the trial check effect
\* (lines 95-125), the mount effect's getDevices() (line 292); the camera init
\* effect sets no timer because no camera is selected yet.
InitCapture(entries) ==
    /\ ctx \in entries
    /\ mounted = TRUE
    /\ state = InitState(ctx)
    /\ rt = InitRt
    /\ initCalls = << >>
    /\ devCalls = <<NewDevCall("", "")>>
    /\ timer = << >>
    /\ trialReq = TrialEffect(ctx).req
    /\ uploads = 0
    /\ ChatIdle
    /\ PagesIdle

InitFrom(entries) ==
    /\ InitCapture(entries)
    /\ previewUrls = << >>

Init == InitFrom(Contexts)

(***************************************************************************)
(* Commit of a handler's state updates and the effects they trigger:       *)
(*   mount effect (deps getDevices, i.e. selectedCamera, selectedMic):     *)
(*       cleanup(), then getDevices() again;                               *)
(*   camera init effect (deps selectedCamera, selectedMic, isRecording,    *)
(*       recordedVideo): clearTimeout, then a new 500 ms timer when a      *)
(*       camera is selected, nothing records and no artifact is held.      *)
(* s2, r2, dc2: the state, refs and getDevices calls the handler leaves.   *)
(* newArtifact: the handler stored a new recordedVideo object.             *)
(* After unmount setState is a no-op and no effect runs.                   *)
(***************************************************************************)
InitEffectTimer(s) ==
    IF s.selectedCamera # "" /\ ~s.isRecording /\ s.recordedVideo = NULL
    THEN <<[cam |-> s.selectedCamera, mic |-> s.selectedMic]>>
    ELSE << >>

Commit(s2, r2, dc2, newArtifact) ==
    IF ~mounted
    THEN /\ state' = state
         /\ rt' = r2
         /\ devCalls' = dc2
         /\ timer' = timer
    ELSE LET selChanged  == \/ s2.selectedCamera # state.selectedCamera
                            \/ s2.selectedMic # state.selectedMic
             depsChanged == \/ selChanged
                            \/ s2.isRecording # state.isRecording
                            \/ s2.recordedVideo # state.recordedVideo
                            \/ newArtifact
         IN  /\ state' = s2
             /\ selChanged => Len(dc2) < MaxDevCalls
             /\ rt' = IF selChanged THEN cleanup(r2) ELSE r2
             /\ devCalls' = IF selChanged
                            THEN Append(dc2, NewDevCall(s2.selectedCamera, s2.selectedMic))
                            ELSE dc2
             /\ timer' = IF depsChanged THEN InitEffectTimer(s2) ELSE timer

(***************************************************************************)
(* Trial check response (validateTrialCode, lines 51-65)                   *)
(***************************************************************************)
\* validateTrialCode storing true whatever response.data.valid is.
TrialCheckOkAlwaysValid(data) ==
    /\ trialReq = "pending"
    /\ trialReq' = "none"
    /\ Commit([state EXCEPT !.trialInfo = <<data>>,
                            !.trialValid = "true",
                            !.trialError = NULL],
              rt, devCalls, FALSE)
    /\ UNCHANGED <<ctx, mounted, initCalls, uploads, chatVars, pageVars, previewUrls>>

TrialCheckOk(data) ==
    /\ trialReq = "pending"
    /\ trialReq' = "none"
    /\ Commit([state EXCEPT !.trialInfo = <<data>>,
                            !.trialValid = IF data.valid THEN "true" ELSE "false",
                            !.trialError = NULL],
              rt, devCalls, FALSE)
    /\ UNCHANGED <<ctx, mounted, initCalls, uploads, chatVars, pageVars, previewUrls>>

TrialCheckFail(msg) ==
    /\ trialReq = "pending"
    /\ trialReq' = "none"
    /\ Commit([state EXCEPT !.trialError = IF msg # NULL THEN msg
                                           ELSE "Failed to validate trial code",
                            !.trialValid = "false",
                            !.trialInfo = << >>],
              rt, devCalls, FALSE)
    /\ UNCHANGED <<ctx, mounted, initCalls, uploads, chatVars, pageVars, previewUrls>>

(***************************************************************************)
(* Device refresh (getDevices, lines 251-288)                              *)
(***************************************************************************)
UsedStreams ==
    LiveIds(rt) \cup {rt.currentStreamRef, rt.recStream}
    \cup { devCalls[i].stream : i \in DOMAIN devCalls }
    \cup { initCalls[i].stream : i \in DOMAIN initCalls }

\* The handle of the next stream the browser opens: the least one not in use.
FreeStream ==
    CHOOSE id \in StreamIds :
        id \notin UsedStreams /\ \A j \in StreamIds : j < id => j \in UsedStreams

\* The Refresh Devices button (disabled while recording) and the Try Again
\* button of the missing-device warning both call the current getDevices.
RefreshEnabled ==
    \/ ~state.isRecording
    \/ Len(state.devices.video) = 0
    \/ Len(state.devices.audio) = 0

RefreshDevices ==
    /\ mounted
    /\ RefreshEnabled
    /\ Len(devCalls) < MaxDevCalls
    /\ devCalls' = Append(devCalls, NewDevCall(state.selectedCamera, state.selectedMic))
    /\ UNCHANGED <<ctx, mounted, state, rt, initCalls, timer, trialReq, uploads, chatVars, pageVars, previewUrls>>

\* The browser grants the probe request getUserMedia({video: true, audio: true}):
\* the probe stream is open from here until the continuation stops it.
ProbeGranted(i) ==
    /\ devCalls[i].phase = "gum"
    /\ StreamIds \ UsedStreams # {}
    /\ LET id == FreeStream IN
       /\ rt' = [rt EXCEPT !.streams = @ \cup
                     {[id |-> id, kind |-> "probe", cam |-> "", mic |-> ""]}]
       /\ devCalls' = [devCalls EXCEPT ![i].phase = "open", ![i].stream = id]
    /\ UNCHANGED <<ctx, mounted, state, initCalls, timer, trialReq, uploads, chatVars, pageVars, previewUrls>>

\* Lines 259-263: stop the probe's tracks, then ask for the device list.
ProbeReleased(i) ==
    /\ devCalls[i].phase = "open"
    /\ rt' = StopTracks(rt, devCalls[i].stream)
    /\ devCalls' = [devCalls EXCEPT ![i].phase = "enum", ![i].stream = 0]
    /\ UNCHANGED <<ctx, mounted, state, initCalls, timer, trialReq, uploads, chatVars, pageVars, previewUrls>>

\* Lines 264-278: enumerateDevices() answered with the lists v, a. The defaults
\* are decided on the selection the call closed over, not the current one.
DevicesEnumerated(i, v, a) ==
    /\ devCalls[i].phase = "enum"
    /\ LET c  == devCalls[i]
           s1 == [state EXCEPT !.devices = [video |-> v, audio |-> a]]
           s2 == IF c.noCamera /\ Len(v) > 0
                 THEN [s1 EXCEPT !.selectedCamera = v[1]] ELSE s1
           s3 == IF c.noMic /\ Len(a) > 0
                 THEN [s2 EXCEPT !.selectedMic = a[1]] ELSE s2
       IN  Commit(s3, rt, RemoveAt(devCalls, i), FALSE)
    /\ UNCHANGED <<ctx, mounted, initCalls, trialReq, uploads, chatVars, pageVars, previewUrls>>

\* err.name of a rejected probe or enumeration.
DeviceErrorNames == {"NotAllowedError", "NotFoundError"}

\* Lines 282-286: the message the catch of getDevices sets for err.name.
getDevicesErrorSame(name) ==
    "Failed to access cameras and microphones. Please make sure your devices are connected and try again."

getDevicesError(name) ==
    IF name = "NotAllowedError"
    THEN "Please allow access to your camera and microphone to use this feature."
    ELSE "Failed to access cameras and microphones. Please make sure your devices are connected and try again."

\* Lines 280-287: the probe or the enumeration is rejected.
DevicesFailed(i, name) ==
    /\ devCalls[i].phase \in {"gum", "enum"}
    /\ Commit([state EXCEPT !.error = getDevicesError(name)],
              rt, RemoveAt(devCalls, i), FALSE)
    /\ UNCHANGED <<ctx, mounted, initCalls, trialReq, uploads, chatVars, pageVars, previewUrls>>

(***************************************************************************)
(* Camera initialisation (initializeCamera, lines 195-248)                 *)
(***************************************************************************)
\* An initializeCamera call suspended at getUserMedia(constraints) for the
\* devices cameraId and micId (lines 203-216).
NewInitCall(cameraId, micId) ==
    [phase |-> "gum", cam |-> cameraId, mic |-> micId, stream |-> 0]

\* Lines 196-216: the guard, the release of the previous stream, the request.
initializeCameraNoRelease(cameraId, micId) ==
    IF cameraId = "" \/ rt.initializingRef
    THEN UNCHANGED <<rt, initCalls>>
    ELSE /\ Len(initCalls) < MaxInitCalls
         /\ rt' = [rt EXCEPT !.initializingRef = TRUE]
         /\ initCalls' = Append(initCalls, NewInitCall(cameraId, micId))

\* initializeCamera without the initializingRef test of line 196.
initializeCameraNoGuard(cameraId, micId) ==
    IF cameraId = ""
    THEN UNCHANGED <<rt, initCalls>>
    ELSE /\ Len(initCalls) < MaxInitCalls
         /\ rt' = [cleanup(rt) EXCEPT !.initializingRef = TRUE]
         /\ initCalls' = Append(initCalls, NewInitCall(cameraId, micId))

initializeCamera(cameraId, micId) ==
    IF cameraId = "" \/ rt.initializingRef
    THEN UNCHANGED <<rt, initCalls>>
    ELSE /\ Len(initCalls) < MaxInitCalls
         /\ rt' = [cleanup(rt) EXCEPT !.initializingRef = TRUE]
         /\ initCalls' = Append(initCalls, NewInitCall(cameraId, micId))

\* The debounce timer of the camera init effect fires (lines 303-305).
DebounceFire ==
    /\ timer # << >>
    /\ timer' = << >>
    /\ initializeCamera(timer[1].cam, timer[1].mic)
    /\ UNCHANGED <<ctx, mounted, state, devCalls, trialReq, uploads, chatVars, pageVars, previewUrls>>

\* videoRef.current: the preview element exists while the view is mounted,
\* a camera is selected and no artifact is shown (lines 663-706).
VideoElement == mounted /\ state.recordedVideo = NULL /\ state.selectedCamera # ""

\* Lines 233-240 and 246: the rest of initializeCamera after the stream is stored.
\* The first updateAudioLevel() (line 188) samples an analyser that has
\* processed no audio block yet: all bins are 0.
InitTail(c, r, audioOk) ==
    LET r1 == IF c.mic # "" THEN startAudioAnalysis(r, audioOk) ELSE r
        s1 == [state EXCEPT !.cameraInitialized = TRUE, !.error = NULL]
    IN  [s |-> IF c.mic # "" /\ audioOk
               THEN [s1 EXCEPT !.audioLevel = normalizedLevel(Silence)] ELSE s1,
         r |-> [r1 EXCEPT !.initializingRef = FALSE]]

\* Lines 216-227: getUserMedia resolves; the stream is stored and, when the
\* preview element exists, play() is awaited.
StreamAcquired(i, audioOk) ==
    /\ initCalls[i].phase = "gum"
    /\ rt.frames # FrameIds
    /\ StreamIds \ UsedStreams # {}
    /\ LET c  == initCalls[i]
           id == FreeStream
           r1 == [rt EXCEPT !.streams = @ \cup
                      {[id |-> id, kind |-> "session", cam |-> c.cam, mic |-> c.mic]},
                            !.currentStreamRef = id]
       IN  IF VideoElement
           THEN /\ audioOk    \* not read before play() settles
                /\ initCalls' = [initCalls EXCEPT ![i].phase = "play", ![i].stream = id]
                /\ rt' = r1
                /\ UNCHANGED <<state, devCalls, timer>>
           ELSE /\ initCalls' = RemoveAt(initCalls, i)
                /\ LET t == InitTail(c, r1, audioOk)
                   IN  Commit(t.s, t.r, devCalls, FALSE)
    /\ UNCHANGED <<ctx, mounted, trialReq, uploads, chatVars, pageVars, previewUrls>>

\* Lines 227-240: play() settles (its rejection is only logged).
PlaySettled(i, audioOk) ==
    /\ initCalls[i].phase = "play"
    /\ rt.frames # FrameIds
    /\ initCalls' = RemoveAt(initCalls, i)
    /\ LET t == InitTail(initCalls[i], rt, audioOk)
       IN  Commit(t.s, t.r, devCalls, FALSE)
    /\ UNCHANGED <<ctx, mounted, trialReq, uploads, chatVars, pageVars, previewUrls>>

\* Lines 241-247: getUserMedia rejects.
AcquireFailed(i) ==
    /\ initCalls[i].phase = "gum"
    /\ initCalls' = RemoveAt(initCalls, i)
    /\ Commit([state EXCEPT
                  !.error = "Failed to access camera and microphone. Please ensure you have granted the necessary permissions.",
                  !.cameraInitialized = FALSE],
              [rt EXCEPT !.initializingRef = FALSE], devCalls, FALSE)
    /\ UNCHANGED <<ctx, mounted, trialReq, uploads, chatVars, pageVars, previewUrls>>

\* updateAudioLevel run by requestAnimationFrame (lines 176-185), with
\* dataArray as getByteFrequencyData fills it.
AudioTickResets(f, dataArray) ==
    /\ f \in rt.frames
    /\ LET r1 == [rt EXCEPT !.frames = @ \ {f}]
       IN  IF ~r1.audioAnalyserRef
           THEN Commit(state, r1, devCalls, FALSE)
           ELSE LET g == FreeFrame(r1)
                IN  Commit([state EXCEPT !.audioLevel = normalizedLevel(dataArray),
                                        !.cameraInitialized = FALSE],
                           [r1 EXCEPT !.frames = @ \cup {g}, !.animationFrameRef = g],
                           devCalls, FALSE)
    /\ UNCHANGED <<ctx, mounted, initCalls, trialReq, uploads, chatVars, pageVars, previewUrls>>

AudioTick(f, dataArray) ==
    /\ f \in rt.frames
    /\ LET r1 == [rt EXCEPT !.frames = @ \ {f}]
       IN  IF ~r1.audioAnalyserRef
           THEN Commit(state, r1, devCalls, FALSE)
           ELSE LET g == FreeFrame(r1)
                IN  Commit([state EXCEPT !.audioLevel = normalizedLevel(dataArray)],
                           [r1 EXCEPT !.frames = @ \cup {g}, !.animationFrameRef = g],
                           devCalls, FALSE)
    /\ UNCHANGED <<ctx, mounted, initCalls, trialReq, uploads, chatVars, pageVars, previewUrls>>

(***************************************************************************)
(* The blob URL store: URL.createObjectURL, URL.revokeObjectURL            *)
(***************************************************************************)
\* URL.createObjectURL (line 339) adds one entry to the store.
createObjectURL(store) ==
    IF store = << >> THEN store ELSE <<store[1] + 1>>

\* URL.revokeObjectURL (line 429) of an entry of the store removes it.
revokeObjectURL(store) ==
    IF store = << >> THEN store ELSE <<store[1] - 1>>

(***************************************************************************)
(* Recording (startRecording, stopRecording, the recorder's onstop)        *)
(***************************************************************************)
\* The disabled attribute of the Start/Stop button (line 754).
StartDisabledNoTrial ==
    ~state.cameraInitialized \/ state.uploading

StartDisabled ==
    ~state.cameraInitialized \/ state.uploading \/ state.trialValid # "true"

\* The Start/Stop button is rendered while no artifact is held (line 748).
StartAvailable ==
    mounted /\ state.recordedVideo = NULL /\ ~state.isRecording /\ ~StartDisabled

StopAvailable ==
    mounted /\ state.recordedVideo = NULL /\ state.isRecording /\ ~StartDisabled

\* startRecording (lines 311-352). recorderOk = FALSE: constructing or
\* starting the MediaRecorder throws.
startRecording(recorderOk) ==
    IF rt.currentStreamRef = 0
    THEN Commit([state EXCEPT !.error = "Camera not initialized"], rt, devCalls, FALSE)
    ELSE IF ~recorderOk
    THEN Commit([state EXCEPT !.error = "Failed to start recording"], rt, devCalls, FALSE)
    ELSE /\ rt.mediaRecorderRef = "stopping" => rt.oldStops < MaxOldStops
         /\ Commit([state EXCEPT !.isRecording = TRUE,
                                 !.error = NULL,
                                 !.processingStatus = NULL],
                   [rt EXCEPT !.mediaRecorderRef = "recording",
                              !.recStream = rt.currentStreamRef,
                              !.oldStops = IF rt.mediaRecorderRef = "stopping"
                                           THEN @ + 1 ELSE @],
                   devCalls, FALSE)

StartRecording(recorderOk) ==
    /\ StartAvailable
    /\ startRecording(recorderOk)
    /\ UNCHANGED <<ctx, mounted, initCalls, trialReq, uploads, chatVars, pageVars, previewUrls>>

\* stopRecording (lines 354-359). stop() on a recorder that is not recording
\* throws InvalidStateError before setIsRecording(false): nothing changes.
StopRecording ==
    /\ StopAvailable
    /\ rt.mediaRecorderRef = "recording"
    /\ Commit([state EXCEPT !.isRecording = FALSE],
              [rt EXCEPT !.mediaRecorderRef = "stopping"], devCalls, FALSE)
    /\ UNCHANGED <<ctx, mounted, initCalls, trialReq, uploads, chatVars, pageVars, previewUrls>>

\* mediaRecorder.onstop (lines 328-342) run on refs r.
onstop(r) ==
    /\ Commit([state EXCEPT !.cameraInitialized = FALSE, !.recordedVideo = "video"],
              cleanup(r), devCalls, TRUE)
    /\ previewUrls' = createObjectURL(previewUrls)

\* The stop event of the recorder mediaRecorderRef holds.
RecorderStopped ==
    /\ rt.mediaRecorderRef = "stopping"
    /\ onstop([rt EXCEPT !.mediaRecorderRef = "inactive", !.recStream = 0])
    /\ UNCHANGED <<ctx, mounted, initCalls, trialReq, uploads, chatVars, pageVars>>

\* The stop event of a recorder that a later startRecording replaced.
OldRecorderStopped ==
    /\ rt.oldStops > 0
    /\ onstop([rt EXCEPT !.oldStops = @ - 1])
    /\ UNCHANGED <<ctx, mounted, initCalls, trialReq, uploads, chatVars, pageVars>>

\* retakeVideo (lines 427-438); Record Again is disabled while uploading.
\* The artifact it discards always carries a url (line 341).
RetakeVideo ==
    /\ mounted
    /\ state.recordedVideo # NULL
    /\ ~state.uploading
    /\ Commit([state EXCEPT !.recordedVideo = NULL,
                            !.error = NULL,
                            !.processingStatus = NULL,
                            !.cameraInitialized = FALSE],
              rt, devCalls, FALSE)
    /\ previewUrls' = revokeObjectURL(previewUrls)
    /\ UNCHANGED <<ctx, mounted, initCalls, trialReq, uploads, chatVars, pageVars>>

(***************************************************************************)
(* Selection, error dismissal, unmount                                     *)
(***************************************************************************)
Items(list) == { list[k] : k \in DOMAIN list }

\* handleCameraChange (lines 456-462); the select is disabled while recording.
HandleCameraChange(newCameraId) ==
    /\ mounted
    /\ ~state.isRecording
    /\ newCameraId \in Items(state.devices.video)
    /\ newCameraId # state.selectedCamera
    /\ Commit([state EXCEPT !.selectedCamera = newCameraId,
                            !.cameraInitialized = FALSE],
              rt, devCalls, FALSE)
    /\ UNCHANGED <<ctx, mounted, initCalls, trialReq, uploads, chatVars, pageVars, previewUrls>>

\* handleMicChange (lines 464-472).
HandleMicChange(newMicId) ==
    /\ mounted
    /\ ~state.isRecording
    /\ newMicId \in Items(state.devices.audio)
    /\ newMicId # state.selectedMic
    /\ Commit([state EXCEPT !.selectedMic = newMicId,
                            !.cameraInitialized = FALSE],
              rt, devCalls, FALSE)
    /\ UNCHANGED <<ctx, mounted, initCalls, trialReq, uploads, chatVars, pageVars, previewUrls>>

\* An onClose that also resets the capture, as retakeVideo does.
DismissErrorResets ==
    /\ mounted
    /\ state.error # NULL
    /\ Commit([state EXCEPT !.error = NULL,
                            !.recordedVideo = NULL,
                            !.processingStatus = NULL,
                            !.cameraInitialized = FALSE],
              rt, devCalls, FALSE)
    /\ UNCHANGED <<ctx, mounted, initCalls, trialReq, uploads, chatVars, pageVars, previewUrls>>

\* onClose of the error alert (line 808).
DismissError ==
    /\ mounted
    /\ state.error # NULL
    /\ Commit([state EXCEPT !.error = NULL], rt, devCalls, FALSE)
    /\ UNCHANGED <<ctx, mounted, initCalls, trialReq, uploads, chatVars, pageVars, previewUrls>>

\* The view is torn down: the effect cleanups run (cleanup(), line 295;
\* clearTimeout, line 307). Pending promises, frames and recorder events stay.
Unmount ==
    /\ mounted
    /\ mounted' = FALSE
    /\ rt' = cleanup(rt)
    /\ timer' = << >>
    /\ UNCHANGED <<ctx, state, initCalls, devCalls, trialReq, uploads, chatVars, pageVars, previewUrls>>

(***************************************************************************)
(* Submit (handleAnalyzeVideo, uploadVideoAndNavigate)                     *)
(***************************************************************************)
\* The Analyze My Video button: rendered while an artifact is held and
\* nothing uploads (line 768), disabled unless the trial is valid (line 773).
AnalyzeAvailable ==
    /\ mounted
    /\ state.recordedVideo # NULL
    /\ ~state.uploading
    /\ state.trialValid = "true"

\* handleAnalyzeVideo (lines 440-453) up to the await of the POST (line 406):
\* downloadVideo (lines 361-375; downloadOk = FALSE: it throws and its catch
\* sets an error), then setUploading(true), setProcessingStatus('uploading')
\* and the one request.
HandleAnalyzeVideo(downloadOk) ==
    /\ AnalyzeAvailable
    /\ uploads' = uploads + 1
    /\ Commit([state EXCEPT !.error = IF downloadOk THEN @ ELSE "Failed to download video",
                            !.uploading = TRUE,
                            !.processingStatus = "uploading"],
              rt, devCalls, FALSE)
    /\ UNCHANGED <<ctx, mounted, initCalls, trialReq, chatVars, pageVars, previewUrls>>

\* Answers of POST /process-video/ that end in the catch (lines 419-423):
\* a 200 without videoId (the Error thrown at line 418 has no response), a
\* server error with a message, a network error or the 60 s timeout.
UploadFailures == {"noid", "500", "network"}

UploadErrorMessage(answer) ==
    IF answer = "500" THEN "Video file too large" ELSE "Failed to upload video"

UploadFailedRetry(answer) ==
    /\ uploads > 0
    /\ uploads' = uploads
    /\ Commit([state EXCEPT !.error = UploadErrorMessage(answer),
                            !.processingStatus = "error"],
              rt, devCalls, FALSE)
    /\ UNCHANGED <<ctx, mounted, initCalls, trialReq, chatVars, pageVars, previewUrls>>

UploadFailed(answer) ==
    /\ uploads > 0
    /\ uploads' = uploads - 1
    /\ Commit([state EXCEPT !.error = UploadErrorMessage(answer),
                            !.processingStatus = "error"],
              rt, devCalls, FALSE)
    /\ UNCHANGED <<ctx, mounted, initCalls, trialReq, chatVars, pageVars, previewUrls>>

\* The POST answers with a videoId: navigate(`/chat/${videoId}`) (line 416).
\* The route change unmounts the capture view (effect cleanups as in Unmount)
\* and mounts ChatPage, whose polling effect issues its first status request.
\* The server created the job record when it accepted the upload.
UploadSucceeded(j) ==
    /\ uploads > 0
    /\ uploads' = uploads - 1
    /\ mounted' = FALSE
    /\ rt' = IF mounted THEN cleanup(rt) ELSE rt
    /\ timer' = << >>
    /\ videoId' = j
    /\ chatMounted' = TRUE
    /\ chat' = InitChat
    /\ polls' = [polls EXCEPT ![j].status = @ + 1]
    /\ job' = [job EXCEPT ![j] = "pending"]
    /\ UNCHANGED <<ctx, state, initCalls, devCalls, trialReq, notified, previewUrls, pageVars>>

(***************************************************************************)
(* The capture view                                                        *)
(***************************************************************************)
\* The capture view is explored with a silent microphone: the level steers
\* nothing in it. SpecAudio explores the samples.
Next ==
    \/ \E data \in TrialResponses : TrialCheckOk(data)
    \/ \E msg \in TrialFailures : TrialCheckFail(msg)
    \/ RefreshDevices
    \/ \E i \in DOMAIN devCalls : ProbeGranted(i)
    \/ \E i \in DOMAIN devCalls : ProbeReleased(i)
    \/ \E i \in DOMAIN devCalls, v \in VideoLists, a \in AudioLists : DevicesEnumerated(i, v, a)
    \/ \E i \in DOMAIN devCalls, name \in DeviceErrorNames : DevicesFailed(i, name)
    \/ DebounceFire
    \/ \E i \in DOMAIN initCalls, audioOk \in BOOLEAN : StreamAcquired(i, audioOk)
    \/ \E i \in DOMAIN initCalls, audioOk \in BOOLEAN : PlaySettled(i, audioOk)
    \/ \E i \in DOMAIN initCalls : AcquireFailed(i)
    \/ \E f \in FrameIds : AudioTick(f, Silence)
    \/ \E recorderOk \in BOOLEAN : StartRecording(recorderOk)
    \/ StopRecording
    \/ RecorderStopped
    \/ OldRecorderStopped
    \/ RetakeVideo
    \/ \E c \in {"c1", "c2"} : HandleCameraChange(c)
    \/ \E m \in {"m1", "m2"} : HandleMicChange(m)
    \/ DismissError
    \/ \E downloadOk \in BOOLEAN : HandleAnalyzeVideo(downloadOk)
    \/ \E answer \in UploadFailures : UploadFailed(answer)
    \/ \E j \in JobIds : UploadSucceeded(j)
    \/ Unmount

Spec == Init /\ [][Next]_vars

(***************************************************************************)
(* The tracking view ChatPage and its poll chain                           *)
(* (checkVideoStatus, unnamed/part_001 lines 451-488)                      *)
(***************************************************************************)
\* The capture view is not rendered.
CaptureIdle ==
    /\ ctx = [path |-> "/upload", code |-> "", env |-> "production",
              admin |-> FALSE, app |-> "App"]
    /\ mounted = FALSE
    /\ state = InitState(ctx)
    /\ rt = InitRt
    /\ initCalls = << >>
    /\ devCalls = << >>
    /\ timer = << >>
    /\ trialReq = "none"
    /\ uploads = 0
    /\ previewUrls = << >>

Chains(p) == p.status + p.chat + p.timer
TotalChains == Chains(polls["v1"]) + Chains(polls["v2"])

\* The state after ChatPage's first render and its effects: the polling effect
\* has called checkVideoStatus(), whose status request is in flight.
InitChatPage ==
    /\ CaptureIdle
    /\ PagesIdle
    /\ videoId \in JobIds
    /\ chatMounted = TRUE
    /\ chat = InitChat
    /\ polls = [NoPolls EXCEPT ![videoId].status = 1]
    /\ job \in [JobIds -> {"absent", "pending"}]
    /\ notified = [j \in JobIds |-> 0]

\* setState of ChatPage: a no-op once the view is unmounted.
SetChat(c2) == chat' = IF chatMounted THEN c2 ELSE chat

\* What GET /video-status/{j}/ may answer now: 404 while the server has no
\* record, else the record's status; or the request fails otherwise, with a
\* server message ("500") or without a response ("network").
StatusAnswers(j) ==
    (IF job[j] = "absent" THEN {"404"} ELSE {job[j]}) \cup {"500", "network"}

\* statusResponse.data.error of a job the server reports as failed.
JobErrorMessage == "Video analysis crashed"

\* The error object the catch receives: an axios error carries the server's
\* response (here its data.error) when the server answered, none on a network
\* failure; the Error thrown at line 473 carries only a message.
AxiosError(answer) ==
    [message |-> "Request failed",
     response |-> IF answer = "500" THEN "Internal server error" ELSE NULL]

ThrownOnFailed == [message |-> JobErrorMessage, response |-> NULL]

\* Line 482: err.response?.data?.error || 'Failed to start chat'
CaughtMessage(err) ==
    IF err.response # NULL THEN err.response ELSE "Failed to start chat"

FailureMessage(answer) == CaughtMessage(AxiosError(answer))

\* Line 478: err?.response?.status === 404
NotReadyNever(answer) == FALSE

NotReady(answer) == answer = "404"

\* The continuation of the status request of a chain for job j (lines 454-484).
StatusResponse(j, answer) ==
    /\ polls[j].status > 0
    /\ answer \in StatusAnswers(j)
    /\ CASE answer = "completed" ->
              \* line 460: the chat-start request is issued
              /\ polls' = [polls EXCEPT ![j].status = @ - 1, ![j].chat = @ + 1]
              /\ UNCHANGED chat
         [] answer = "processing" ->
              \* line 471
              /\ polls' = [polls EXCEPT ![j].status = @ - 1, ![j].timer = @ + 1]
              /\ UNCHANGED chat
         [] answer = "failed" ->
              \* line 473 throws an Error that has no response: lines 482-483
              /\ polls' = [polls EXCEPT ![j].status = @ - 1]
              /\ SetChat([chat EXCEPT !.error = CaughtMessage(ThrownOnFailed),
                                      !.loading = FALSE])
         [] NotReady(answer) ->
              \* lines 478-480
              /\ polls' = [polls EXCEPT ![j].status = @ - 1, ![j].timer = @ + 1]
              /\ UNCHANGED chat
         [] ~NotReady(answer) /\ answer \in {"404", "500", "network"} ->
              \* lines 482-483
              /\ polls' = [polls EXCEPT ![j].status = @ - 1]
              /\ SetChat([chat EXCEPT !.error = FailureMessage(answer), !.loading = FALSE])
         [] OTHER ->
              \* any other status, "pending" included: no branch matches
              /\ polls' = [polls EXCEPT ![j].status = @ - 1]
              /\ UNCHANGED chat
    /\ UNCHANGED <<rvVars, pageVars, videoId, chatMounted, job, notified>>

\* setTimeout(checkVideoStatus, 2000) fires: the next status request.
PollTimerFired(j) ==
    /\ polls[j].timer > 0
    /\ polls' = [polls EXCEPT ![j].timer = @ - 1, ![j].status = @ + 1]
    /\ UNCHANGED <<rvVars, pageVars, videoId, chatMounted, chat, job, notified>>

MaxNotified == 2

\* The continuation of POST /chat/start/{j}/ (lines 461-468, 475-484).
ChatStartResponse(j, answer) ==
    /\ polls[j].chat > 0
    /\ CASE answer = "ok" ->
              /\ polls' = [polls EXCEPT ![j].chat = @ - 1]
              /\ SetChat([chat EXCEPT !.conversationId = j,
                                      !.messages = <<j>>,
                                      !.questionsRemaining = 5,
                                      !.error = NULL,
                                      !.loading = FALSE])
              /\ notified' = [notified EXCEPT ![j] = Min(@ + 1, MaxNotified)]
         [] NotReady(answer) ->
              /\ polls' = [polls EXCEPT ![j].chat = @ - 1, ![j].timer = @ + 1]
              /\ UNCHANGED <<chat, notified>>
         [] OTHER ->
              /\ polls' = [polls EXCEPT ![j].chat = @ - 1]
              /\ SetChat([chat EXCEPT !.error = FailureMessage(answer), !.loading = FALSE])
              /\ UNCHANGED notified
    /\ UNCHANGED <<rvVars, pageVars, videoId, chatMounted, job>>

MaxChains == 3

\* The route parameter changes while ChatPage stays mounted: the polling
\* effect (deps [videoId], no cleanup function) calls checkVideoStatus() again.
ChangeVideoId(j) ==
    /\ chatMounted
    /\ j # videoId
    /\ TotalChains < MaxChains
    /\ videoId' = j
    /\ polls' = [polls EXCEPT ![j].status = @ + 1]
    /\ UNCHANGED <<rvVars, pageVars, chatMounted, chat, job, notified>>

\* ChatPage is torn down; its polling effect returns no cleanup function.
ChatUnmount ==
    /\ chatMounted
    /\ chatMounted' = FALSE
    /\ UNCHANGED <<rvVars, pageVars, videoId, chat, polls, job, notified>>

\* The server advances a job: its record appears, processing starts, it ends.
ServerAdvance(j) ==
    /\ job[j] \in {"absent", "pending", "processing"}
    /\ job' = [job EXCEPT ![j] =
                 CASE @ = "absent" -> "pending"
                   [] @ = "pending" -> "processing"
                   [] OTHER -> "completed"]
    /\ UNCHANGED <<rvVars, pageVars, videoId, chatMounted, chat, polls, notified>>

ServerFails(j) ==
    /\ job[j] \in {"pending", "processing"}
    /\ job' = [job EXCEPT ![j] = "failed"]
    /\ UNCHANGED <<rvVars, pageVars, videoId, chatMounted, chat, polls, notified>>

StatusValues == {"pending", "processing", "completed", "failed", "404", "500", "network"}

NextChat ==
    \/ \E j \in JobIds, answer \in StatusValues : StatusResponse(j, answer)
    \/ \E j \in JobIds : PollTimerFired(j)
    \/ \E j \in JobIds, answer \in {"ok", "404", "500", "network"} : ChatStartResponse(j, answer)
    \/ \E j \in JobIds : ChangeVideoId(j)
    \/ ChatUnmount
    \/ \E j \in JobIds : ServerAdvance(j)
    \/ \E j \in JobIds : ServerFails(j)

SpecChat == InitChatPage /\ [][NextChat]_vars

(***************************************************************************)
(* Properties of the capture view (checked under Spec)                     *)
(***************************************************************************)
SessionStreams == { s \in rt.streams : s.kind = "session" }
ProbeStreams == { s \in rt.streams : s.kind = "probe" }
Acquiring == \E i \in DOMAIN initCalls : initCalls[i].phase = "gum"

\* C1: an initializeCamera acquisition is in flight only after the session
\* stream held before it was released (no session stream live, handle null),
\* at most one initializeCamera call is in flight, and at most one session
\* stream is live.
C1_ReleaseBeforeAcquire ==
    /\ Len(initCalls) <= 1
    /\ Acquiring => SessionStreams = {} /\ rt.currentStreamRef = 0
    /\ Cardinality(SessionStreams) <= 1

\* A re-acquisition in flight: a stream had been acquired before
\* (cameraInitialized was set by an earlier call) and has been released.
C1_Witness ==
    /\ mounted
    /\ state.cameraInitialized
    /\ Acquiring
    /\ rt.initializingRef

\* C2: at most one stream is open system-wide, the probe stream of getDevices
\* counted, and no probe stream is open while a session stream is live or
\* being acquired.
C2_OneStreamSystemWide ==
    /\ Cardinality(rt.streams) <= 1
    /\ ProbeStreams # {} => SessionStreams = {} /\ ~Acquiring

\* The full release: no track of a session stream live (the recorded stream
\* is one), handle null, no sampling frame pending, analyser disconnected and
\* nulled, audio context closed and nulled.
FullyReleased ==
    /\ rt.currentStreamRef = 0
    /\ SessionStreams = {}
    /\ rt.animationFrameRef = 0
    /\ rt.frames = {}
    /\ ~rt.audioAnalyserRef
    /\ rt.analysers = 0
    /\ ~rt.audioContextRef
    /\ rt.contexts = 0

\* C3: every step that ends a recording, the recorder's onstop (after
\* stopRecording or after its stream stopped) or the unmount of the view while
\* the recorder records, leaves the resources fully released.
C3_StopReleases ==
    [][ ( \/ RecorderStopped
          \/ OldRecorderStopped
          \/ (Unmount /\ rt.mediaRecorderRef = "recording") )
        => FullyReleased' ]_vars

\* A recording that the unmount of the view ended and whose onstop has run
\* since, with audio metering having been active for the session.
C3_Witness ==
    /\ ~mounted
    /\ state.isRecording
    /\ state.selectedMic # ""
    /\ rt.mediaRecorderRef = "inactive"
    /\ FullyReleased

\* C4: a step that enters Recording is taken only with trialValid = true.
C4_RecordingNeedsValidTrial ==
    [][ ( \/ (~state.isRecording /\ state'.isRecording)
          \/ (rt.mediaRecorderRef # "recording" /\ rt'.mediaRecorderRef = "recording") )
        => state.trialValid = "true" ]_vars

\* Recording on a trial route whose code the server has validated.
C4_Witness ==
    /\ mounted
    /\ state.isRecording
    /\ rt.mediaRecorderRef = "recording"
    /\ ctx.code = "ABC-123"
    /\ state.trialInfo # << >>

\* The stream is Ready.
Ready ==
    /\ mounted
    /\ state.cameraInitialized
    /\ ~state.isRecording
    /\ state.recordedVideo = NULL

\* C5: with trialValid = true and the stream Ready the start action is
\* available and invoking it enters Recording (a MediaRecorder that cannot be
\* constructed apart); with trialValid = false the action is unavailable.
C5_StartWhenValidAndReady ==
    [][ /\ (Ready /\ state.trialValid = "true") => StartAvailable
        /\ (Ready /\ state.trialValid = "true" /\ StartRecording(TRUE))
               => state'.isRecording
        /\ state.trialValid = "false" => ~StartAvailable ]_vars

\* C6: whenever trialValid = false the start action is disabled and a trial
\* error message is set.
C6_RefusalNotSilent ==
    (mounted /\ state.trialValid = "false")
        => (StartDisabled /\ state.trialError # NULL)

(***************************************************************************)
(* Properties of the poll chain (checked under SpecChat)                   *)
(***************************************************************************)
\* C7: a status response of processing or pending schedules exactly one
\* further status request (one more 2 s timer) and ends nothing else.
C7_TransientSchedulesNext ==
    [][ \A j \in JobIds, answer \in {"processing", "pending"} :
          StatusResponse(j, answer)
          => /\ polls'[j].timer = polls[j].timer + 1
             /\ Chains(polls'[j]) = Chains(polls[j]) ]_vars

\* C8: once the tracked job is completed and its poll chain has gone quiet
\* without an error, its result was surfaced exactly once; and no job's
\* result is ever surfaced more than once.
C8_ExactlyOneNotification ==
    \A j \in JobIds :
        /\ notified[j] <= 1
        /\ ( /\ chatMounted
             /\ videoId = j
             /\ job[j] = "completed"
             /\ Chains(polls[j]) = 0
             /\ chat.error = NULL ) => notified[j] = 1

\* C9: at most one status request is in flight per job id.
C9_SequentialPolls ==
    \A j \in JobIds : polls[j].status <= 1

\* C10: a status or chat-start response for a job id that is no longer the
\* tracked one changes no state of the view and schedules nothing.
C10_StaleResponseIgnored ==
    [][ \A j \in JobIds :
          ( /\ j # videoId
            /\ \/ \E answer \in StatusValues : StatusResponse(j, answer)
               \/ \E answer \in {"ok", "404", "500", "network"} : ChatStartResponse(j, answer) )
          => /\ chat' = chat
             /\ polls'[j].timer = polls[j].timer
             /\ polls'[j].chat <= polls[j].chat
             /\ polls'[j].status <= polls[j].status ]_vars

\* C11: while the chat start that an observed completed status triggered is in
\* flight, no status request is in flight and no poll timer is pending for
\* that job, and a job's result is surfaced at most once.
C11_NoPollAfterCompleted ==
    \A j \in JobIds :
        /\ polls[j].chat > 0 => (polls[j].status = 0 /\ polls[j].timer = 0)
        /\ notified[j] >= 1 => (polls[j].status = 0 /\ polls[j].timer = 0)
        /\ notified[j] <= 1

\* C12: a failed status response schedules nothing, ends its chain, and sets
\* the server's error message as the current error with loading cleared.
C12_FailedExposesServerError ==
    [][ \A j \in JobIds :
          (chatMounted /\ StatusResponse(j, "failed"))
          => /\ polls'[j].timer = polls[j].timer
             /\ Chains(polls'[j]) = Chains(polls[j]) - 1
             /\ chat'.error = JobErrorMessage
             /\ ~chat'.loading ]_vars

\* C13: a 404 answer of the status or the chat-start request changes no state
\* of the view and replaces the request by exactly one poll timer; any other
\* failure of a request ends its chain, schedules nothing and, when the view
\* is mounted, sets an error and clears loading.
C13_NotFoundIsNotReady ==
    [][ \A j \in JobIds :
          /\ (StatusResponse(j, "404") \/ ChatStartResponse(j, "404"))
             => /\ chat' = chat
                /\ polls'[j].timer = polls[j].timer + 1
                /\ Chains(polls'[j]) = Chains(polls[j])
          /\ (\E answer \in {"500", "network"} :
                 StatusResponse(j, answer) \/ ChatStartResponse(j, answer))
             => /\ polls'[j].timer = polls[j].timer
                /\ Chains(polls'[j]) = Chains(polls[j]) - 1
                /\ chatMounted => (chat'.error # NULL /\ ~chat'.loading) ]_vars

\* A poll timer pending for a job the server has no record of, the view
\* still loading without an error: a 404 was answered and retried.
C13_Witness ==
    \E j \in JobIds :
        /\ chatMounted
        /\ videoId = j
        /\ job[j] = "absent"
        /\ polls[j].timer = 1
        /\ chat = InitChat

\* C14: once the tracking view is unmounted no poll timer is pending, no
\* request is issued, and a response changes no state and schedules nothing.
C14_UnmountCancelsPolling ==
    [][ ~chatMounted'
        => /\ chat' = chat
           /\ \A j \in JobIds :
                 /\ polls'[j].timer = 0
                 /\ polls'[j].status <= polls[j].status
                 /\ polls'[j].chat <= polls[j].chat ]_vars

\* C15: in every state after the unmount of the capture view no session
\* stream is live, the stream handle is null and no sampling frame is
\* scheduled, whenever a getUserMedia request of initializeCamera resolves.
C15_UnmountDiscardsStream ==
    ~mounted => /\ SessionStreams = {}
                /\ rt.currentStreamRef = 0
                /\ rt.frames = {}

\* C16: when the upload request fails with a network error while the view is
\* mounted, the artifact is still held, an error message is shown and the
\* analyze action is available again on that artifact.
C16_FailedUploadCanBeRetried ==
    [][ (mounted /\ UploadFailed("network"))
        => /\ state'.recordedVideo = state.recordedVideo
           /\ state'.recordedVideo # NULL
           /\ state'.error # NULL
           /\ AnalyzeAvailable' ]_vars

\* C17: a submit issues exactly one upload request, a failed upload only
\* consumes its request, and no step other than a submit issues one.
C17_OneUploadPerSubmit ==
    [][ /\ (\E downloadOk \in BOOLEAN : HandleAnalyzeVideo(downloadOk))
             => uploads' = uploads + 1
        /\ (\E answer \in UploadFailures : UploadFailed(answer))
             => uploads' = uploads - 1
        /\ uploads' > uploads
             => \E downloadOk \in BOOLEAN : HandleAnalyzeVideo(downloadOk) ]_vars

\* An upload has failed: its error is recorded, the artifact is held and no
\* request is in flight.
C17_Witness ==
    /\ mounted
    /\ state.recordedVideo # NULL
    /\ state.processingStatus = "error"
    /\ state.error = "Failed to upload video"
    /\ uploads = 0

\* A stop event is pending: stop() was requested, or the recorder's stream
\* was stopped, and the recorder's onstop handler has not run yet.
StopPending == rt.mediaRecorderRef = "stopping" \/ rt.oldStops > 0

\* C18: while a stop event is pending no step starts a recording and no step
\* starts an initializeCamera acquisition.
C18_ReleaseBeforeNewStart ==
    [][ StopPending
        => /\ ~(rt.mediaRecorderRef # "recording" /\ rt'.mediaRecorderRef = "recording")
           /\ ~(~state.isRecording /\ state'.isRecording)
           /\ Len(initCalls') <= Len(initCalls) ]_vars

\* The missing-device warning of lines 627-649.
DeviceWarning ==
    mounted /\ (Len(state.devices.video) = 0 \/ Len(state.devices.audio) = 0)

\* C19: while the last enumeration lists a camera and no microphone, the
\* warning is shown and the start action is not available.
C19_NoMicrophoneDisablesStart ==
    (mounted /\ Len(state.devices.video) > 0 /\ Len(state.devices.audio) = 0)
        => (DeviceWarning /\ ~StartAvailable)

(***************************************************************************)
(* Retake under fair scheduling (checked under SpecRetake): the debounce   *)
(* timer fires, getUserMedia and play() settle successfully, the view      *)
(* stays mounted and the user records, stops, retakes and selects devices. *)
(***************************************************************************)
InitRetake ==
    /\ Init
    /\ ctx.path = "/upload"

NextRetake ==
    \/ \E i \in DOMAIN devCalls : ProbeGranted(i)
    \/ \E i \in DOMAIN devCalls : ProbeReleased(i)
    \/ \E i \in DOMAIN devCalls, v \in VideoLists, a \in AudioLists : DevicesEnumerated(i, v, a)
    \/ DebounceFire
    \/ \E i \in DOMAIN initCalls : StreamAcquired(i, TRUE)
    \/ \E i \in DOMAIN initCalls : PlaySettled(i, TRUE)
    \/ \E f \in FrameIds : AudioTick(f, Silence)
    \/ StartRecording(TRUE)
    \/ StopRecording
    \/ RecorderStopped
    \/ OldRecorderStopped
    \/ RetakeVideo
    \/ \E c \in {"c1", "c2"} : HandleCameraChange(c)
    \/ \E m \in {"m1", "m2"} : HandleMicChange(m)

SpecRetake ==
    /\ InitRetake
    /\ [][NextRetake]_vars
    /\ WF_vars(DebounceFire)
    /\ WF_vars(\E i \in DOMAIN initCalls : StreamAcquired(i, TRUE))
    /\ WF_vars(\E i \in DOMAIN initCalls : PlaySettled(i, TRUE))
    /\ WF_vars(RecorderStopped)

\* The session was Stopped (a recorder has run its onstop) and retakeVideo
\* has discarded the artifact: acquisition is to restart.
Retaken ==
    /\ mounted
    /\ rt.mediaRecorderRef = "inactive"
    /\ state.recordedVideo = NULL
    /\ state.error = NULL
    /\ state.processingStatus = NULL
    /\ ~state.isRecording
    /\ ~state.cameraInitialized
    /\ timer # << >>

\* Ready with a live session stream of camera cam and microphone mic.
ReadyWith(cam, mic) ==
    /\ Ready
    /\ \E s \in SessionStreams :
          s.id = rt.currentStreamRef /\ s.cam = cam /\ s.mic = mic

\* C20: after a retake with camera cam and microphone mic selected, the
\* session eventually is Ready with a stream for that pair, unless the user
\* selects other devices or starts a recording first.
C20_RetakeBecomesReady ==
    \A cam \in {"c1", "c2"}, mic \in {"", "m1", "m2"} :
        (Retaken /\ state.selectedCamera = cam /\ state.selectedMic = mic)
        ~> ( \/ ReadyWith(cam, mic)
             \/ state.selectedCamera # cam
             \/ state.selectedMic # mic
             \/ state.isRecording )

(***************************************************************************)
(* C21: suppression of redundant initialisation                            *)
(***************************************************************************)
\* An initializeCamera call is between its guard and its finally block.
Initializing == initCalls # << >>

\* The debounce timer is about to request the pair that is being acquired.
SamePairRequested ==
    /\ timer # << >>
    /\ Initializing
    /\ \E i \in DOMAIN initCalls :
           initCalls[i].cam = timer[1].cam /\ initCalls[i].mic = timer[1].mic

SelectionChanges ==
    \/ state'.selectedCamera # state.selectedCamera
    \/ state'.selectedMic # state.selectedMic

\* C21: a request to initialize the pair that is already being acquired issues
\* no getUserMedia request and releases nothing; a selection change made while
\* a debounce timer is pending replaces that timer, so one timer at most is
\* pending, and a timer that fires starts one acquisition at most.
C21_SuppressedWhileInitializing ==
    [][ /\ (DebounceFire /\ SamePairRequested)
            => (initCalls' = initCalls /\ rt' = rt)
        /\ (mounted /\ SelectionChanges /\ timer # << >>)
            => timer' = <<[cam |-> state'.selectedCamera, mic |-> state'.selectedMic]>>
        /\ Len(timer') <= 1
        /\ Len(initCalls') <= Len(initCalls) + 1
        /\ Len(initCalls') > Len(initCalls) => DebounceFire
      ]_vars

\* A request for the pair being acquired is pending, after a selection change
\* replaced a pending timer.
C21_Witness ==
    /\ SamePairRequested
    /\ rt.initializingRef
    /\ state.selectedCamera = "c1"
    /\ state.selectedMic = "m2"

(***************************************************************************)
(* C22: failures of the device refresh                                     *)
(***************************************************************************)
\* C22: a refresh that fails ends in its catch: the call is over, the current
\* error is the message for the failure's name, the message for a permission
\* denial differs from the message for every other failure, and the device
\* lists, the selection, the refs and the debounce timer are as before.
C22_RefreshFailureReported ==
    [][ \A i \in DOMAIN devCalls, name \in DeviceErrorNames :
          (mounted /\ DevicesFailed(i, name)) =>
            /\ state'.error = getDevicesError(name)
            /\ state'.error # NULL
            /\ (name # "NotAllowedError")
                 => getDevicesError(name) # getDevicesError("NotAllowedError")
            /\ state'.devices = state.devices
            /\ state'.selectedCamera = state.selectedCamera
            /\ state'.selectedMic = state.selectedMic
            /\ Len(devCalls') = Len(devCalls) - 1
            /\ rt' = rt /\ timer' = timer /\ mounted'
      ]_vars

\* A refresh was denied after an earlier one had filled the lists and the
\* selection and the camera had been initialised (which clears the error).
C22_Witness ==
    /\ mounted
    /\ state.error = getDevicesError("NotAllowedError")
    /\ devCalls = << >>
    /\ state.devices.video # << >>
    /\ state.selectedCamera # ""
    /\ state.cameraInitialized

(***************************************************************************)
(* C23: the selection after a device refresh                               *)
(***************************************************************************)
\* C23: each selected device id is empty or a member of the current device
\* list of its kind.
C23_SelectionInLists ==
    /\ state.selectedCamera = "" \/ state.selectedCamera \in Items(state.devices.video)
    /\ state.selectedMic = "" \/ state.selectedMic \in Items(state.devices.audio)

InitEntry == InitFrom(EntryContexts)

NextEntry ==
    \/ \E data \in TrialResponses : TrialCheckOk(data)
    \/ \E msg \in TrialFailures : TrialCheckFail(msg)
    \/ \E i \in DOMAIN devCalls : ProbeGranted(i)
    \/ \E i \in DOMAIN devCalls : ProbeReleased(i)
    \/ \E i \in DOMAIN devCalls, v \in VideoLists, a \in AudioLists : DevicesEnumerated(i, v, a)
    \/ DebounceFire
    \/ \E i \in DOMAIN initCalls : StreamAcquired(i, TRUE)
    \/ \E i \in DOMAIN initCalls : PlaySettled(i, TRUE)
    \/ \E f \in FrameIds : AudioTick(f, Silence)
    \/ StartRecording(TRUE)
    \/ StopRecording
    \/ RecorderStopped

SpecEntry == InitEntry /\ [][NextEntry]_vars

(***************************************************************************)
(* C25: resolution of the effective trial code                             *)
(***************************************************************************)
\* C25: a code in the path is checked with the server: the gate is null while
\* the request is in flight and never holds the bypass record; without a
\* code, on /upload or in a development build, the gate is Valid with the
\* bypass record and no request is made; without a code, in production and
\* off /upload, the gate is Invalid with 'Invalid trial link' and no request
\* is made.
C25_EffectiveTokenResolution ==
    /\ ctx.code # "" =>
          /\ TrialEffect(ctx).req = "pending"
          /\ state.trialInfo # <<Bypass>>
          /\ trialReq = "pending" => state.trialValid = NULL
    /\ (ctx.code = "" /\ (ctx.path = "/upload" \/ ctx.env = "development")) =>
          /\ TrialEffect(ctx).req = "none"
          /\ trialReq = "none"
          /\ state.trialValid = "true"
          /\ state.trialInfo = <<Bypass>>
    /\ (ctx.code = "" /\ ctx.path # "/upload" /\ ctx.env = "production") =>
          /\ TrialEffect(ctx).req = "none"
          /\ trialReq = "none"
          /\ state.trialValid = "false"
          /\ state.trialError = "Invalid trial link"

(***************************************************************************)
(* C26: who may record                                                     *)
(***************************************************************************)
\* The path carries a code that the server's check answered as valid.
ValidCodeInPath ==
    /\ ctx.code # ""
    /\ \E data \in TrialResponses : data.valid /\ state.trialInfo = <<data>>

\* C26: in production, for a visitor who is not an admin and whose path
\* carries no valid trial code, Start Recording is never available.
C26_OnlyAdminsBypass ==
    (~ctx.admin /\ ctx.env = "production" /\ ~ValidCodeInPath) => ~StartAvailable

(***************************************************************************)
(* C27: the current error                                                  *)
(***************************************************************************)
\* Every message a setError of the component may store.
ErrorMessages ==
    { getDevicesError(name) : name \in DeviceErrorNames }
    \cup { UploadErrorMessage(answer) : answer \in UploadFailures }
    \cup { "Failed to access camera and microphone. Please ensure you have granted the necessary permissions.",
           "Camera not initialized",
           "Failed to start recording",
           "Failed to download video" }

\* C27: the current error is none or one message, a step that reports an
\* error leaves exactly the message it reports, and dismissing the error
\* clears it and changes nothing else: artifact, stream handle and the other
\* refs, selection, recording flag, trial cells, calls in flight and timer.
C27_DismissChangesOnlyError ==
    [][ /\ state'.error \in ErrorMessages \cup {NULL}
        /\ DismissError =>
              /\ state.error # NULL
              /\ state' = [state EXCEPT !.error = NULL]
              /\ rt' = rt
              /\ timer' = timer
              /\ initCalls' = initCalls
              /\ devCalls' = devCalls
              /\ trialReq' = trialReq
              /\ uploads' = uploads
      ]_vars

\* The error of a failed upload was dismissed: the artifact is still held and
\* the processing status still says error.
C27_Witness ==
    /\ mounted
    /\ state.error = NULL
    /\ state.processingStatus = "error"
    /\ state.recordedVideo # NULL
    /\ initCalls = << >>

(***************************************************************************)
(* The audio level monitor: the capture view on /upload with every sample  *)
(* the analyser may deliver                                                *)
(***************************************************************************)
InitAudio ==
    InitFrom({ c \in Contexts : c.path = "/upload" })

NextAudio ==
    \/ \E i \in DOMAIN devCalls : ProbeGranted(i)
    \/ \E i \in DOMAIN devCalls : ProbeReleased(i)
    \/ \E i \in DOMAIN devCalls, v \in VideoLists, a \in AudioLists : DevicesEnumerated(i, v, a)
    \/ DebounceFire
    \/ \E i \in DOMAIN initCalls, audioOk \in BOOLEAN : StreamAcquired(i, audioOk)
    \/ \E i \in DOMAIN initCalls, audioOk \in BOOLEAN : PlaySettled(i, audioOk)
    \/ \E f \in FrameIds, dataArray \in Samples : AudioTick(f, dataArray)
    \/ StartRecording(TRUE)
    \/ StopRecording
    \/ RecorderStopped
    \/ RetakeVideo
    \/ \E c \in {"c1", "c2"} : HandleCameraChange(c)
    \/ \E m \in {"m1", "m2"} : HandleMicChange(m)
    \/ Unmount

SpecAudio == InitAudio /\ [][NextAudio]_vars

(***************************************************************************)
(* C28: range of the audio level                                           *)
(***************************************************************************)
InRange(level) == 0 <= level /\ level <= 100 * LevelUnit

\* C28: the level computed from any sample of BinCount bytes, and so the
\* level the view holds, lies between 0 and 100 percent.
C28_LevelInRange ==
    /\ \A dataArray \in Samples : InRange(normalizedLevel(dataArray))
    /\ InRange(state.audioLevel)

\* A tick sampled the loudest input: every bin 255.
C28_Witness ==
    /\ mounted
    /\ rt.audioAnalyserRef
    /\ state.audioLevel = normalizedLevel([k \in 1..BinCount |-> 255])
    /\ state.audioLevel > 99 * LevelUnit

(***************************************************************************)
(* C29: the sampling loop ends with its session                            *)
(***************************************************************************)
\* The stream the running loop was started for is live. A loop is started by
\* the one initializeCamera call in flight for the stream it stored in
\* currentStreamRef; cleanup() stops that stream and clears the ref.
SessionLive == rt.currentStreamRef \in LiveIds(rt)

\* C29: at most one frame of the sampling loop is scheduled at any time, and
\* a tick that runs after the session's stream was released neither updates
\* the level nor schedules another frame.
C29_LoopEndsWithSession ==
    [][ /\ Cardinality(rt'.frames) <= 1
        /\ \A f \in FrameIds, dataArray \in Samples :
              (AudioTick(f, dataArray) /\ ~SessionLive) =>
                  /\ state'.audioLevel = state.audioLevel
                  /\ rt'.frames = {}
      ]_vars

(***************************************************************************)
(* C30: a sampling tick only observes                                      *)
(***************************************************************************)
\* C30: a tick of the sampling loop changes the audio level and the handle
\* of the next scheduled frame and nothing else: the stream handle and the
\* other refs, the recording flag, the artifact, the selection, the
\* camera-initialized flag, the calls in flight and the debounce timer are
\* as before.
C30_TickOnlyObserves ==
    [][ \A f \in FrameIds, dataArray \in Samples :
          AudioTick(f, dataArray) =>
            /\ state' = [state EXCEPT !.audioLevel = state'.audioLevel]
            /\ rt' = [rt EXCEPT !.frames = rt'.frames,
                                !.animationFrameRef = rt'.animationFrameRef]
            /\ timer' = timer
            /\ initCalls' = initCalls
            /\ devCalls' = devCalls
      ]_vars

\* A tick sampled sound while a recording runs.
C30_Witness ==
    /\ mounted
    /\ state.isRecording
    /\ rt.mediaRecorderRef = "recording"
    /\ state.audioLevel > 0
    /\ rt.frames # {}

(***************************************************************************)
(* C33: cameraInitialized and the stream                                   *)
(***************************************************************************)
\* C33: while the view is mounted, cameraInitialized = true implies that the
\* stream handle names a live stream; so Start Recording is never enabled
\* with no live stream.
C33_InitializedHasStream ==
    /\ (mounted /\ state.cameraInitialized) => SessionLive
    /\ StartAvailable => SessionLive

(***************************************************************************)
(* C34: the stream of a quiescent view                                     *)
(***************************************************************************)
\* No initializeCamera call is in flight and no debounce timer is pending.
Quiescent == mounted /\ initCalls = << >> /\ timer = << >>

\* C34: when the view is quiescent and a session stream is live, that stream
\* was acquired for the selected camera and microphone.
C34_StreamMatchesSelection ==
    Quiescent =>
        \A s \in SessionStreams :
            s.cam = state.selectedCamera /\ s.mic = state.selectedMic

(***************************************************************************)
(* C35: the stream of a running recording                                  *)
(***************************************************************************)
\* A recording is in progress on a live stream.
Recording ==
    /\ mounted
    /\ state.isRecording
    /\ rt.mediaRecorderRef = "recording"
    /\ rt.recStream \in LiveIds(rt)

\* C35: while a recording is in progress, a step that stops the tracks of the
\* recorded stream or replaces the stream handle is the unmount of the view
\* (the explicit stop releases the stream in onstop, when the recording is
\* over).
C35_RecordedStreamKept ==
    [][ ( /\ Recording
          /\ \/ rt.recStream \notin LiveIds(rt')
             \/ rt'.currentStreamRef # rt.currentStreamRef )
        => (Unmount \/ \E j \in JobIds : UploadSucceeded(j))
      ]_vars

\* C36: at most one upload request is in flight, and while the view is mounted
\* and no upload request is in flight the uploading flag is false.
C36_UploadingFlagFollowsRequest ==
    /\ uploads <= 1
    /\ (mounted /\ uploads = 0) => ~state.uploading

\* The refs cleanup clears hold nothing.
NothingHeld(r) ==
    /\ r.currentStreamRef = 0
    /\ r.animationFrameRef = 0
    /\ ~r.audioAnalyserRef
    /\ ~r.audioContextRef

\* C38: in every state, cleanup leaves the stream handle, the frame handle,
\* the analyser and the audio context null, running it a second time changes
\* nothing more, and it changes nothing when nothing is held.
C38_CleanupIdempotent ==
    /\ NothingHeld(cleanup(rt))
    /\ cleanup(cleanup(rt)) = cleanup(rt)
    /\ NothingHeld(rt) => cleanup(rt) = rt

\* The view was unmounted during a recording: the unmount ran cleanup, the
\* stop event that caused ran it a second time from onstop.
C38_Witness ==
    /\ ~mounted
    /\ state.isRecording
    /\ rt.mediaRecorderRef = "inactive"
    /\ NothingHeld(rt)
    /\ rt.streams = {}

(***************************************************************************)
(* C31: the preview URL of the artifact                                    *)
(* The capture view entered on /upload, with the blob URL store observed.  *)
(***************************************************************************)
InitPreview ==
    /\ InitCapture({ c \in Contexts : c.path = "/upload" })
    /\ previewUrls = <<0>>

\* MaxUrls caps the entries the store is followed to.
StoreHasRoom == previewUrls[1] < MaxUrls

NextPreview ==
    \/ \E i \in DOMAIN devCalls : ProbeGranted(i)
    \/ \E i \in DOMAIN devCalls : ProbeReleased(i)
    \/ \E i \in DOMAIN devCalls, v \in VideoLists, a \in AudioLists : DevicesEnumerated(i, v, a)
    \/ DebounceFire
    \/ \E i \in DOMAIN initCalls : StreamAcquired(i, TRUE)
    \/ \E i \in DOMAIN initCalls : PlaySettled(i, TRUE)
    \/ \E f \in FrameIds : AudioTick(f, Silence)
    \/ StartRecording(TRUE)
    \/ StopRecording
    \/ StoreHasRoom /\ RecorderStopped
    \/ StoreHasRoom /\ OldRecorderStopped
    \/ RetakeVideo
    \/ \E downloadOk \in BOOLEAN : HandleAnalyzeVideo(downloadOk)
    \/ \E answer \in UploadFailures : UploadFailed(answer)
    \/ \E j \in JobIds : UploadSucceeded(j)
    \/ Unmount

SpecPreview == InitPreview /\ [][NextPreview]_vars

\* The artifact is held: the view is mounted and recordedVideo is set.
ArtifactHeld == mounted /\ state.recordedVideo # NULL

\* C31: the only unrevoked preview URL is the one of the artifact the view
\* holds: none is left once the artifact was discarded or replaced by a
\* retake, a later recording, the navigation after an upload or the unmount.
C31_PreviewUrlScoped ==
    previewUrls = IF ArtifactHeld THEN <<1>> ELSE <<0>>

(***************************************************************************)
(* C32: the feedback prompt of the document view                           *)
(***************************************************************************)
\* FileUpload after its first render, in either build, with any
\* feedback_pending_* keys an earlier page load left in localStorage.
InitUpload ==
    /\ CaptureIdle
    /\ ChatIdle
    /\ fileUpload \in { FileUploadWith(keys, build) :
                           keys \in SUBSET DocIds, build \in BOOLEAN }
    /\ auth = AuthSettled(FALSE)

NextUpload ==
    \/ \E sizeOk \in BOOLEAN : SelectFile(sizeOk)
    \/ \E answer \in ExtractAnswers : ExtractAnswered(answer)
    \/ RemoveFile
    \/ HandleImageSelect
    \/ HandleNewLogoChange
    \/ DocumentCreated
    \/ DocumentFailed
    \/ \E c \in fileUpload.chains, status \in PollAnswers : StatusAnswered(c, status)
    \/ \E c \in fileUpload.chains : DocumentPollTimerFired(c)
    \/ \E c \in fileUpload.chains, answer \in CheckAnswers : DownloadChecked(c, answer)
    \/ \E c \in fileUpload.chains, ok \in BOOLEAN : FileDownloaded(c, ok)
    \/ HandleFeedbackClose

SpecUpload == InitUpload /\ [][NextUpload]_vars

\* C32: the feedback prompt is triggered at most once for a document id, and
\* once for every document whose status was answered 'completed' and whose
\* download handler has returned.
C32_FeedbackOncePerDocument ==
    /\ \A k \in DocIds : fileUpload.triggered[k] <= 1
    /\ \A k \in fileUpload.settled : fileUpload.triggered[k] = 1

(***************************************************************************)
(* C37: ProtectedRoute and the admin check                                 *)
(***************************************************************************)
InitAuth ==
    /\ CaptureIdle
    /\ ChatIdle
    /\ fileUpload = FileUploadIdle
    /\ auth \in { AuthWith(pathname) : pathname \in Pathnames }

NextAuth ==
    \/ \E is_admin \in BOOLEAN, usr \in {"admin", NULL} : CheckAdminOk(is_admin, usr)
    \/ CheckAdminFail
    \/ Login("admin")
    \/ Logout
    \/ LogoutSettled
    \/ \E pathname \in Pathnames : Navigate(pathname)
    \/ \E pathname \in Pathnames : LoadPage(pathname)

SpecAuth == InitAuth /\ [][NextAuth]_vars

\* The visitor was not admitted as an admin: the admin check has not answered
\* is_admin = true and no login was accepted.
NotAdmitted == auth.lastCheck # "admin" /\ ~auth.loggedIn

\* C37: for a visitor not admitted as an admin, ProtectedRoute renders its
\* children on none of "/", "/upload", "/record" and the routes show the
\* recording page on none of them; after a failed admin check isAdmin is
\* false, user is null and the loading state has ended.
C37_ProtectedRouteKeepsVisitorsOut ==
    NotAdmitted =>
        /\ \A pathname \in {"/", "/upload", "/record"} :
              /\ ProtectedRoute(auth, pathname) # "children"
              /\ PageAt(auth, pathname) # "RecordVideo"
        /\ auth.lastCheck = "failed" =>
              /\ ~auth.isAdmin
              /\ auth.user = NULL
              /\ ~auth.loading
              /\ auth.checked

\* The admin check failed and the visitor stands on "/upload": the loading
\* state has ended and the page shows Access Restricted.
C37_Witness ==
    /\ auth.lastCheck = "failed"
    /\ ~auth.loggedIn
    /\ auth.pathname = "/upload"
    /\ ~auth.loading
    /\ PageAt(auth, "/upload") = "Access Restricted"

====
